---- MODULE Spec2Model ----
(***************************************************************************)
(* Model of scripts/pin-github-actions.py: the two resolvers               *)
(* (get_commit_sha_for_tag, get_version_for_commit_sha), the line loop of  *)
(* process_workflow_file and main run on a single workflow file.           *)
(*                                                                         *)
(* A Python str is a sequence of one-character strings, so that the        *)
(* regular expressions, split, join, strip and replace are computed on     *)
(* the text itself.                                                        *)
(***************************************************************************)
EXTENDS Integers, Sequences, FiniteSets, TLC

VARIABLES
    remote,          \* the lookup service: what every URL answers
    disk,            \* the workflow file's text
    dry_run,         \* '--dry-run' in sys.argv
    pc,              \* position of the script
    run,             \* how many times the script has been started
    content,         \* process_workflow_file: content
    lines,           \* process_workflow_file: lines
    idx,             \* position of `for line in lines`
    modified_lines,  \* process_workflow_file: modified_lines
    changes_made,    \* process_workflow_file: changes_made
    total_changes,   \* main: total_changes
    log,             \* history: per processed line, what was looked up and whether it changed
    firstRun,        \* history: the first run's input lines, output lines and log
    res              \* a direct call of the resolvers (specification SpecResolve)

vars == <<remote, disk, dry_run, pc, run, content, lines, idx, modified_lines,
          changes_made, total_changes, log, firstRun, res>>

\* {40} in sha_pattern: the length of a commit identifier
ShaLen == 40

(***************************************************************************)
(* Character classes of Python's re, restricted to ASCII.                  *)
(***************************************************************************)
Digit == {"0", "1", "2", "3", "4", "5", "6", "7", "8", "9"}

HexLower == Digit \cup {"a", "b", "c", "d", "e", "f"}

Letter ==
    {"a", "b", "c", "d", "e", "f", "g", "h", "i", "j", "k", "l", "m", "n", "o",
     "p", "q", "r", "s", "t", "u", "v", "w", "x", "y", "z",
     "A", "B", "C", "D", "E", "F", "G", "H", "I", "J", "K", "L", "M", "N", "O",
     "P", "Q", "R", "S", "T", "U", "V", "W", "X", "Y", "Z"}

\* \w
WordChar == Letter \cup Digit \cup {"_"}

\* [\w-]
SlugChar == WordChar \cup {"-"}

\* \s (the line has no "\n": it comes from content.split('\n'))
Space == {" ", "\t", "\r"}

\* The characters of the model in code-point order; only the order is used.
Ascii ==
    <<"\t", "\n", "\r", " ", "#", "-", ".", "/",
      "0", "1", "2", "3", "4", "5", "6", "7", "8", "9", ":", "@",
      "A", "B", "C", "D", "E", "F", "G", "H", "I", "J", "K", "L", "M", "N", "O",
      "P", "Q", "R", "S", "T", "U", "V", "W", "X", "Y", "Z", "_",
      "a", "b", "c", "d", "e", "f", "g", "h", "i", "j", "k", "l", "m", "n", "o",
      "p", "q", "r", "s", "t", "u", "v", "w", "x", "y", "z">>

CodePoint(c) == CHOOSE i \in 1..Len(Ascii) : Ascii[i] = c

(***************************************************************************)
(* str operations.                                                         *)
(***************************************************************************)
RECURSIVE SpanEnd(_, _, _)
\* The first index j >= i with s[j] \notin S, or Len(s) + 1: where a greedy
\* run of S starting at i ends.
SpanEnd(s, i, S) ==
    IF i <= Len(s) /\ s[i] \in S THEN SpanEnd(s, i + 1, S) ELSE i

RECURSIVE FindAny(_, _, _)
\* The first index j >= i with s[j] \in S, or Len(s) + 1.
FindAny(s, i, S) ==
    IF i <= Len(s) /\ s[i] \notin S THEN FindAny(s, i + 1, S) ELSE i

StartsWithAt(s, i, lit) ==
    /\ i + Len(lit) - 1 <= Len(s)
    /\ SubSeq(s, i, i + Len(lit) - 1) = lit

RECURSIVE split(_, _)
\* s.split(c) for a one-character separator c
split(s, c) ==
    LET j == FindAny(s, 1, {c})
    IN  IF j > Len(s)
        THEN <<s>>
        ELSE <<SubSeq(s, 1, j - 1)>> \o split(SubSeq(s, j + 1, Len(s)), c)

RECURSIVE join(_, _)
\* c.join(ss)
join(ss, c) ==
    IF ss = <<>> THEN <<>>
    ELSE IF Len(ss) = 1 THEN ss[1]
    ELSE ss[1] \o <<c>> \o join(Tail(ss), c)

RECURSIVE rstrip(_)
rstrip(s) ==
    IF s # <<>> /\ s[Len(s)] \in Space THEN rstrip(SubSeq(s, 1, Len(s) - 1)) ELSE s

\* s.strip()
strip(s) == rstrip(SubSeq(s, SpanEnd(s, 1, Space), Len(s)))

RECURSIVE replace(_, _, _)
\* s.replace(old, new), old not empty
replace(s, old, new) ==
    IF s = <<>> THEN <<>>
    ELSE IF StartsWithAt(s, 1, old)
    THEN new \o replace(SubSeq(s, Len(old) + 1, Len(s)), old, new)
    ELSE <<s[1]>> \o replace(Tail(s), old, new)

RECURSIVE StrLess(_, _)
\* a < b on str: by code point, a proper prefix is smaller
StrLess(a, b) ==
    IF b = <<>> THEN FALSE
    ELSE IF a = <<>> THEN TRUE
    ELSE IF a[1] # b[1] THEN CodePoint(a[1]) < CodePoint(b[1])
    ELSE StrLess(Tail(a), Tail(b))

Hash == <<"#">>

\* '\d+(\.\d+)*' over the whole of s
DotDigits(s) ==
    LET segs == split(s, ".")
    IN  \A k \in 1..Len(segs) :
            /\ segs[k] # <<>>
            /\ \A j \in 1..Len(segs[k]) : segs[k][j] \in Digit

(***************************************************************************)
(* The two regular expressions of process_workflow_file, as re.match       *)
(* applies them.  No class of the slug holds a space, "@" or "#", and the  *)
(* ref of either pattern holds no space and no "#", so each group has one  *)
(* possible extent and the greedy runs below are the match.                *)
(***************************************************************************)
NoMatch ==
    [matched |-> FALSE, prefix |-> <<>>, repo |-> <<>>, ref |-> <<>>,
     hasComment |-> FALSE, comment |-> <<>>]

\* '\s*(#.*)?$' from index p; group 4 is None when hasComment is FALSE
Trailer(line, p) ==
    LET q == SpanEnd(line, p, Space)
    IN  IF q > Len(line)
        THEN [ok |-> TRUE, hasComment |-> FALSE, comment |-> <<>>]
        ELSE IF line[q] = "#"
        THEN [ok |-> TRUE, hasComment |-> TRUE, comment |-> SubSeq(line, q, Len(line))]
        ELSE [ok |-> FALSE, hasComment |-> FALSE, comment |-> <<>>]

\* '(\s+uses:\s+)([\w-]+/[\w-]+(?:/[\w-]+)*?)@' from the start of the line:
\* groups 1 and 2 and the index of the "@"
UsesHead(line) ==
    LET p1 == SpanEnd(line, 1, Space)
        p2 == p1 + 5
        p3 == SpanEnd(line, p2, Space)
        p4 == SpanEnd(line, p3, SlugChar \cup {"/"})
        repo == SubSeq(line, p3, p4 - 1)
        segs == split(repo, "/")
    IN  IF /\ p1 > 1
           /\ StartsWithAt(line, p1, <<"u", "s", "e", "s", ":">>)
           /\ p3 > p2
           /\ p4 <= Len(line)
           /\ line[p4] = "@"
           /\ Len(segs) >= 2
           /\ \A k \in 1..Len(segs) : segs[k] # <<>>
        THEN [ok |-> TRUE, prefix |-> SubSeq(line, 1, p3 - 1), repo |-> repo, at |-> p4]
        ELSE [ok |-> FALSE, prefix |-> <<>>, repo |-> <<>>, at |-> 0]

\* 'v?\d+(?:\.\d+)*(?:\.\d+)?' over the whole of ref
IsVersionRef(ref) ==
    /\ ref # <<>>
    /\ DotDigits(IF ref[1] = "v" THEN Tail(ref) ELSE ref)

\* sha_pattern.match(line)
sha_pattern(line) ==
    LET h == UsesHead(line)
        p5 == h.at + 1
        p6 == p5 + ShaLen
    IN  IF /\ h.ok
           /\ p6 - 1 <= Len(line)
           /\ \A k \in p5..(p6 - 1) : line[k] \in HexLower
           /\ Trailer(line, p6).ok
        THEN [matched |-> TRUE, prefix |-> h.prefix, repo |-> h.repo,
              ref |-> SubSeq(line, p5, p6 - 1),
              hasComment |-> Trailer(line, p6).hasComment,
              comment |-> Trailer(line, p6).comment]
        ELSE NoMatch

\* version_pattern.match(line)
version_pattern(line) ==
    LET h == UsesHead(line)
        p5 == h.at + 1
        p6 == FindAny(line, p5, Space \cup {"#"})
    IN  IF /\ h.ok
           /\ IsVersionRef(SubSeq(line, p5, p6 - 1))
           /\ Trailer(line, p6).ok
        THEN [matched |-> TRUE, prefix |-> h.prefix, repo |-> h.repo,
              ref |-> SubSeq(line, p5, p6 - 1),
              hasComment |-> Trailer(line, p6).hasComment,
              comment |-> Trailer(line, p6).comment]
        ELSE NoMatch

\* '^v\d+(\.\d+)*$' (line 114); a tag name holds no "\n"
IsVersionLabel(t) ==
    /\ t # <<>>
    /\ t[1] = "v"
    /\ DotDigits(Tail(t))

(***************************************************************************)
(* The lookup service.  A remote state fixes what each URL answers:        *)
(*   repo     the one repository that exists, "owner/name"                 *)
(*   net      "up", or "down": requests.get raises (no response at all)    *)
(*   listOk   whether GET .../git/refs/tags answers 200                    *)
(*   tags     the tag references, in listing order:                        *)
(*            [ref |-> "refs/tags/<name>", object |-> [sha, type]]         *)
(*   objects  the annotated tag objects GET .../git/tags/<sha> answers 200 *)
(*            for: [sha |-> <id>, object |-> [sha |-> <commit>]]           *)
(***************************************************************************)
\* response.status_code of a success
HTTP_OK == 200

RefsTags == <<"r", "e", "f", "s", "/", "t", "a", "g", "s", "/">>

NotFoundResponse == [status |-> 404, json |-> <<>>]

\* GET https://api.github.com/repos/{owner_repo}/git/refs/tags/{tag}
GetTagRef(rem, owner_repo, tag) ==
    LET hits == {i \in DOMAIN rem.tags : rem.tags[i].ref = RefsTags \o tag}
    IN  IF owner_repo = rem.repo /\ hits # {}
        THEN [status |-> HTTP_OK, json |-> rem.tags[CHOOSE i \in hits : TRUE]]
        ELSE NotFoundResponse

\* GET https://api.github.com/repos/{owner_repo}/git/tags/{sha}
GetTagObject(rem, owner_repo, sha) ==
    LET hits == {o \in rem.objects : o.sha = sha}
    IN  IF owner_repo = rem.repo /\ hits # {}
        THEN [status |-> HTTP_OK, json |-> CHOOSE o \in hits : TRUE]
        ELSE NotFoundResponse

\* GET https://api.github.com/repos/{owner_repo}/git/refs/tags
GetTagRefs(rem, owner_repo) ==
    IF owner_repo = rem.repo /\ rem.listOk
    THEN [status |-> HTTP_OK, json |-> rem.tags]
    ELSE NotFoundResponse

(***************************************************************************)
(* What a resolver call comes to: a str, None, or an exception of          *)
(* requests.get leaving the function (no try/except in the script).        *)
(***************************************************************************)
None == [kind |-> "none", val |-> <<>>]

Raised == [kind |-> "raise", val |-> <<>>]

Value(v) == [kind |-> "value", val |-> v]

\* `if sha:` / `if version:`
Truthy(r) == r.kind = "value" /\ r.val # <<>>

\* f"{parts[0]}/{parts[1]}"
OwnerRepo(parts) == parts[1] \o <<"/">> \o parts[2]

\* lines 51-57: the commit a tag reference stands for, after at most one dereference
DerefTagRef(rem, owner_repo, sha, obj_type) ==
    LET tag_response == GetTagObject(rem, owner_repo, sha)
    IN  IF obj_type = "tag" /\ tag_response.status = HTTP_OK
        THEN tag_response.json.object.sha
        ELSE sha

get_commit_sha_for_tag(rem, repo, tag) ==
    LET parts == split(repo, "/")
        owner_repo == OwnerRepo(parts)
        response == GetTagRef(rem, owner_repo, tag)
        data == response.json
    IN  IF Len(parts) < 2 THEN None
        ELSE IF rem.net = "down" THEN Raised
        ELSE IF response.status # HTTP_OK THEN None
        ELSE Value(DerefTagRef(rem, owner_repo, data.object.sha, data.object.type))

\* Faulty variant of TagSha: the listed object id is taken as it is, annotated
\* tags are not dereferenced.
TagShaListed(rem, owner_repo, tag) == tag.object.sha

\* lines 94-104: tag_sha of one listed tag, after at most one dereference
TagSha(rem, owner_repo, tag) ==
    LET tag_sha == tag.object.sha
        tag_response == GetTagObject(rem, owner_repo, tag_sha)
    IN  IF tag.object.type = "tag" /\ tag_response.status = HTTP_OK
        THEN tag_response.json.object.sha
        ELSE tag_sha

\* tag['ref'].replace('refs/tags/', '')
TagName(tag) == replace(tag.ref, RefsTags, <<>>)

RECURSIVE MatchingTags(_, _, _, _)
\* lines 92-107: matching_tags, in listing order
MatchingTags(rem, owner_repo, tags, sha) ==
    IF tags = <<>> THEN <<>>
    ELSE (IF TagSha(rem, owner_repo, tags[1]) = sha THEN <<TagName(tags[1])>> ELSE <<>>)
         \o MatchingTags(rem, owner_repo, Tail(tags), sha)

\* Faulty variant of KeyLess: key=lambda x: x, the component count is left out.
KeyLessLexOnly(a, b) == StrLess(a, b)

\* key=lambda x: (len(x.split('.')), x), compared as tuples
KeyLess(a, b) ==
    LET na == Len(split(a, "."))
        nb == Len(split(b, "."))
    IN  na < nb \/ (na = nb /\ StrLess(a, b))

RECURSIVE InsertSorted(_, _)
\* x placed in the sorted s after every element that is not greater (stable)
InsertSorted(x, s) ==
    IF s = <<>> THEN <<x>>
    ELSE IF KeyLess(x, s[1]) THEN <<x>> \o s
    ELSE <<s[1]>> \o InsertSorted(x, Tail(s))

RECURSIVE sort(_)
\* list.sort(key=...): a stable sort
sort(s) ==
    IF s = <<>> THEN <<>>
    ELSE InsertSorted(s[Len(s)], sort(SubSeq(s, 1, Len(s) - 1)))

\* lines 109-120: the label chosen among matching_tags
SelectLabel(matching_tags) ==
    LET version_tags == SelectSeq(matching_tags, IsVersionLabel)
    IN  IF matching_tags = <<>> THEN None
        ELSE IF version_tags # <<>> THEN Value(sort(version_tags)[1])
        ELSE Value(matching_tags[1])

get_version_for_commit_sha(rem, repo, sha) ==
    LET parts == split(repo, "/")
        owner_repo == OwnerRepo(parts)
        response == GetTagRefs(rem, owner_repo)
    IN  IF Len(parts) < 2 THEN None
        ELSE IF rem.net = "down" THEN Raised
        ELSE IF response.status # HTTP_OK THEN None
        ELSE SelectLabel(MatchingTags(rem, owner_repo, response.json, sha))

(***************************************************************************)
(* One iteration of `for line in lines` (lines 150-197).  An outcome is    *)
(* what the iteration appends to modified_lines, whether it counted a      *)
(* change, which resolvers it called, whether each call returned a value,  *)
(* and whether an exception left the loop.                                 *)
(***************************************************************************)
Outcome(out, changed, calls, resolved) ==
    [out |-> out, changed |-> changed, calls |-> calls, resolved |-> resolved,
     raised |-> FALSE]

Crash(calls) ==
    [out |-> <<>>, changed |-> FALSE, calls |-> calls, resolved |-> FALSE,
     raised |-> TRUE]

\* Faulty variant of NeedsVersionLookup: `not comment or comment.strip().startswith('#')`
NeedsVersionLookupAnyHash(hasComment, comment) ==
    \/ ~hasComment
    \/ StartsWithAt(strip(comment), 1, Hash)

\* Faulty variant of NeedsVersionLookup: `not comment or comment == '#'`, no strip()
NeedsVersionLookupNoStrip(hasComment, comment) ==
    \/ ~hasComment
    \/ comment = Hash

\* line 161: `not comment or not comment.strip() or comment.strip() == '#'`
NeedsVersionLookup(hasComment, comment) ==
    \/ ~hasComment
    \/ strip(comment) = <<>>
    \/ strip(comment) = Hash

\* line 165: f"{prefix}{repo}@{sha}  # {version}"
AnnotatedLine(prefix, repo, sha, version) ==
    prefix \o repo \o <<"@">> \o sha \o <<" ", " ", "#", " ">> \o version

\* Faulty variant of PinnedLine: the version comment is written whether or not
\* the line had a comment.
PinnedLineFreshComment(prefix, repo, sha, comment, version) ==
    prefix \o repo \o <<"@">> \o sha \o <<" ", " ", "#", " ">> \o version

\* lines 182, 188-189: comment = group(4) or ''; the pinned line
PinnedLine(prefix, repo, sha, comment, version) ==
    LET new_comment == IF comment = <<>> THEN <<" ", " ", "#", " ">> \o version
                       ELSE comment
    IN  prefix \o repo \o <<"@">> \o sha \o new_comment

\* lines 153-174
ShaBranch(rem, line, m) ==
    LET version == get_version_for_commit_sha(rem, m.repo, m.ref)
    IN  IF ~NeedsVersionLookup(m.hasComment, m.comment)
        THEN Outcome(<<line>>, FALSE, {}, TRUE)
        ELSE IF version.kind = "raise" THEN Crash({"label"})
        ELSE IF Truthy(version)
        THEN Outcome(<<AnnotatedLine(m.prefix, m.repo, m.ref, version.val)>>,
                     TRUE, {"label"}, TRUE)
        ELSE Outcome(<<line>>, FALSE, {"label"}, FALSE)

\* lines 178-195
VersionBranch(rem, line, m) ==
    LET sha == get_commit_sha_for_tag(rem, m.repo, m.ref)
    IN  IF sha.kind = "raise" THEN Crash({"ref"})
        ELSE IF Truthy(sha)
        THEN Outcome(<<PinnedLine(m.prefix, m.repo, sha.val, m.comment, m.ref)>>,
                     TRUE, {"ref"}, TRUE)
        ELSE Outcome(<<line>>, FALSE, {"ref"}, FALSE)

\* lines 196-197
ElseBranch(line) == Outcome(<<line>>, FALSE, {}, TRUE)

\* Faulty variant of Iteration: no `continue` at the end of the sha branch, so
\* a line sha_pattern matched goes on to the version check and its else branch.
IterationNoContinue(rem, line) ==
    LET rest == IF version_pattern(line).matched
                THEN VersionBranch(rem, line, version_pattern(line))
                ELSE ElseBranch(line)
        first == ShaBranch(rem, line, sha_pattern(line))
    IN  IF ~sha_pattern(line).matched THEN rest
        ELSE IF first.raised \/ rest.raised THEN Crash(first.calls)
        ELSE [first EXCEPT !.out = @ \o rest.out,
                           !.changed = @ \/ rest.changed,
                           !.calls = @ \cup rest.calls,
                           !.resolved = @ /\ rest.resolved]

\* lines 150-197: the sha check first and `continue`, then the version check
Iteration(rem, line) ==
    IF sha_pattern(line).matched
    THEN ShaBranch(rem, line, sha_pattern(line))
    ELSE IF version_pattern(line).matched
    THEN VersionBranch(rem, line, version_pattern(line))
    ELSE ElseBranch(line)

(***************************************************************************)
(* Bounds and the inputs drawn within them.                                *)
(***************************************************************************)
\* lines of a workflow file
MaxLines == 2

\* times the script is run on the file
MaxRuns == 2

\* tag references in the listing of a directly queried repository
MaxTags == 3

\* A 40-character identifier alternating two characters
Sha(c, d) == [i \in 1..ShaLen |-> IF i % 2 = 1 THEN c ELSE d]

CommitA == Sha("a", "1")

CommitB == Sha("b", "2")

\* a commit identifier that is all decimal digits
CommitDec == Sha("1", "2")

\* the identifier of an annotated tag object
TagObjA == Sha("f", "0")

Repo_a_b == <<"a", "/", "b">>

Repo_a_b_c == <<"a", "/", "b", "/", "c">>

Tag_v1 == <<"v", "1">>

Tag_v3 == <<"v", "3">>

Tag_v4 == <<"v", "4">>

Tag_v400 == <<"v", "4", ".", "0", ".", "0">>

Tag_v9 == <<"v", "9">>

Tag_v10 == <<"v", "1", "0">>

Tag_latest == <<"l", "a", "t", "e", "s", "t">>

\* a tag whose own name holds "refs/tags/"; its listed ref is refs/tags/refs/tags/edge
Tag_nested == <<"r", "e", "f", "s", "/", "t", "a", "g", "s", "/", "e", "d", "g", "e">>

TagRef(name, sha, type) ==
    [ref |-> RefsTags \o name, object |-> [sha |-> sha, type |-> type]]

TagObjects == {[sha |-> TagObjA, object |-> [sha |-> CommitA, type |-> "commit"]]}

RemoteState(net, listOk, tags, objects) ==
    [repo |-> Repo_a_b, net |-> net, listOk |-> listOk, tags |-> tags,
     objects |-> objects]

\* v4.0.0 is annotated, v4 is not; a tag is named like a 40-digit identifier and
\* a commit has a 40-digit identifier
TagsA ==
    <<TagRef(Tag_v400, TagObjA, "tag"), TagRef(Tag_v4, CommitA, "commit"),
      TagRef(CommitDec, CommitB, "commit"), TagRef(Tag_v1, CommitDec, "commit")>>

\* v4 is annotated
TagsB == <<TagRef(Tag_v4, TagObjA, "tag")>>

\* The remote states a workflow file is processed against
FileRemotes ==
    {RemoteState("up", TRUE, TagsA, TagObjects),
     RemoteState("up", FALSE, TagsA, TagObjects),
     RemoteState("up", TRUE, TagsB, TagObjects),
     RemoteState("up", TRUE, TagsB, {}),
     RemoteState("up", TRUE, <<>>, {}),
     RemoteState("down", TRUE, TagsA, TagObjects)}

Prefix1 == <<" ", " ", "u", "s", "e", "s", ":", " ">>

Prefix2 == <<"\t", "u", "s", "e", "s", ":", "\t">>

Uses(prefix, repo, ref, sep, comment) ==
    [shape |-> "uses", prefix |-> prefix, repo |-> repo, ref |-> ref, sep |-> sep,
     comment |-> comment, text |-> <<>>]

Text(text) ==
    [shape |-> "text", prefix |-> <<>>, repo |-> <<>>, ref |-> <<>>, sep |-> <<>>,
     comment |-> <<>>, text |-> text]

\* The text of a line built from its parts
Render(d) ==
    IF d.shape = "uses"
    THEN d.prefix \o d.repo \o <<"@">> \o d.ref \o d.sep \o d.comment
    ELSE d.text

\* The lines a workflow file is made of
LineSpecs ==
    {Uses(Prefix1, Repo_a_b, Tag_v4, <<>>, <<>>),
     Uses(Prefix1, Repo_a_b_c, Tag_v4, <<" ">>, <<"#", " ", "k", "e", "e", "p">>),
     Uses(Prefix2, Repo_a_b, Tag_v4, <<" ">>, Hash),
     Uses(Prefix1, Repo_a_b, CommitA, <<>>, <<>>),
     Uses(Prefix1, Repo_a_b_c, CommitA, <<" ">>, <<"#", " ">>),
     Uses(Prefix1, Repo_a_b, CommitA, <<" ", " ">>, <<"#", " ", "v", "4", ".", "1", ".", "0">>),
     Uses(Prefix1, Repo_a_b, CommitDec, <<>>, <<>>),
     Uses(Prefix1, Repo_a_b, <<"m", "a", "i", "n">>, <<>>, <<>>),
     Text(<<" ", " ", "r", "u", "n", "s", "-", "o", "n", ":", " ", "u", "b", "u", "n", "t", "u", "-", "l", "a", "t", "e", "s", "t">>),
     Text(<<>>)}

RECURSIVE FilesOfLen(_)
FilesOfLen(n) ==
    IF n = 0 THEN {<<>>}
    ELSE {Append(f, Render(d)) : f \in FilesOfLen(n - 1), d \in LineSpecs}

\* Workflow files of 1..MaxLines lines, as sequences of lines
Files == UNION {FilesOfLen(n) : n \in 1..MaxLines}

RECURSIVE FileText(_)
\* The text of a file whose lines are f
FileText(f) ==
    IF Len(f) = 1 THEN f[1] ELSE f[1] \o <<"\n">> \o FileText(Tail(f))

NoCall ==
    [pc |-> "idle", repo |-> <<>>, arg |-> <<>>, sha |-> None, label |-> None,
     candidates |-> <<>>, back |-> None]

(***************************************************************************)
(* main on a workflow file, run up to MaxRuns times on the same path.      *)
(***************************************************************************)
Init ==
    /\ remote \in FileRemotes
    /\ disk \in {FileText(f) : f \in Files}
    /\ dry_run \in BOOLEAN
    /\ pc = "main"
    /\ run = 1
    /\ content = <<>>
    /\ lines = <<>>
    /\ idx = 1
    /\ modified_lines = <<>>
    /\ changes_made = 0
    /\ total_changes = 0
    /\ log = <<>>
    /\ firstRun = [done |-> FALSE, resolved |-> TRUE]
    /\ res = NoCall

\* main, lines 216-225, and process_workflow_file up to its loop, lines 141-148
ReadFile ==
    /\ pc = "main"
    /\ content' = disk
    /\ lines' = split(disk, "\n")
    /\ modified_lines' = <<>>
    /\ changes_made' = 0
    /\ total_changes' = 0
    /\ idx' = 1
    /\ log' = <<>>
    /\ pc' = "loop"
    /\ UNCHANGED <<remote, disk, dry_run, run, firstRun, res>>

\* One iteration's effect on the state of process_workflow_file; an exception
\* leaves the loop, the function and main
Step(o) ==
    /\ modified_lines' = modified_lines \o o.out
    /\ changes_made' = changes_made + (IF o.changed THEN 1 ELSE 0)
    /\ log' = Append(log, [line |-> lines[idx], out |-> o.out, calls |-> o.calls,
                           changed |-> o.changed, resolved |-> o.resolved,
                           raised |-> o.raised])
    /\ idx' = IF o.raised THEN idx ELSE idx + 1
    /\ pc' = IF o.raised THEN "crashed" ELSE "loop"
    /\ UNCHANGED <<remote, disk, dry_run, run, content, lines, total_changes,
                   firstRun, res>>

\* an iteration on a line sha_pattern matches
ProcessShaLine ==
    /\ pc = "loop"
    /\ idx <= Len(lines)
    /\ sha_pattern(lines[idx]).matched
    /\ Step(Iteration(remote, lines[idx]))

\* an iteration on a line only version_pattern matches
ProcessVersionLine ==
    /\ pc = "loop"
    /\ idx <= Len(lines)
    /\ ~sha_pattern(lines[idx]).matched
    /\ version_pattern(lines[idx]).matched
    /\ Step(Iteration(remote, lines[idx]))

\* an iteration on any other line
ProcessOtherLine ==
    /\ pc = "loop"
    /\ idx <= Len(lines)
    /\ ~sha_pattern(lines[idx]).matched
    /\ ~version_pattern(lines[idx]).matched
    /\ Step(Iteration(remote, lines[idx]))

\* lines 199-208: the write-back, and main's total, lines 225 and 237-239
Finish ==
    /\ pc = "loop"
    /\ idx > Len(lines)
    /\ disk' = IF changes_made > 0 /\ ~dry_run
               THEN join(modified_lines, "\n")
               ELSE disk
    /\ total_changes' = changes_made
    /\ firstRun' = IF run = 1
                   THEN [done |-> TRUE,
                         resolved |-> \A i \in 1..Len(log) : log[i].resolved]
                   ELSE firstRun
    /\ pc' = "done"
    /\ UNCHANGED <<remote, dry_run, run, content, lines, idx, modified_lines,
                   changes_made, log, res>>

\* the script is started again on the same path, against the same remote state
Rerun ==
    /\ pc = "done"
    /\ run < MaxRuns
    /\ run' = run + 1
    /\ pc' = "main"
    /\ UNCHANGED <<remote, disk, dry_run, content, lines, idx, modified_lines,
                   changes_made, total_changes, log, firstRun, res>>

Next ==
    \/ ReadFile
    \/ ProcessShaLine
    \/ ProcessVersionLine
    \/ ProcessOtherLine
    \/ Finish
    \/ Rerun

Spec == Init /\ [][Next]_vars

(***************************************************************************)
(* The resolvers called directly, on every listing of up to MaxTags of the *)
(* repository's tags.                                                      *)
(***************************************************************************)
TagPool ==
    {TagRef(Tag_v4, CommitA, "commit"),
     TagRef(Tag_v400, TagObjA, "tag"),
     TagRef(Tag_v10, CommitA, "commit"),
     TagRef(Tag_v9, CommitA, "commit"),
     TagRef(Tag_latest, CommitA, "commit"),
     TagRef(Tag_nested, CommitA, "commit"),
     TagRef(Tag_v3, CommitB, "commit")}

RECURSIVE ListingsOfLen(_)
\* The listings of n distinct tags of the pool
ListingsOfLen(n) ==
    IF n = 0 THEN {<<>>}
    ELSE UNION {{Append(l, t) : t \in TagPool \ {l[i] : i \in 1..Len(l)}} :
                l \in ListingsOfLen(n - 1)}

ResolveRemotes ==
    {RemoteState("up", ok, tags, objects) :
        ok \in BOOLEAN,
        tags \in UNION {ListingsOfLen(n) : n \in 0..MaxTags},
        objects \in {TagObjects, {}}}
    \cup {RemoteState("down", TRUE, TagsB, TagObjects)}

\* repository slugs: with a subpath, of one segment, of another repository
ResolveRepos == {Repo_a_b_c, <<"a">>, <<"x", "/", "y">>}

\* the tag names of the pool
ResolveTags == {Tag_v4, Tag_v400, Tag_v10, Tag_v9, Tag_latest, Tag_nested, Tag_v3}

ResolveShas == {CommitA, CommitB, TagObjA}

InitResolve ==
    /\ remote \in ResolveRemotes
    /\ res = [NoCall EXCEPT !.pc = "start"]
    /\ disk = <<>>
    /\ dry_run = FALSE
    /\ pc = "idle"
    /\ run = 0
    /\ content = <<>>
    /\ lines = <<>>
    /\ idx = 1
    /\ modified_lines = <<>>
    /\ changes_made = 0
    /\ total_changes = 0
    /\ log = <<>>
    /\ firstRun = [done |-> FALSE, resolved |-> TRUE]

FileVars ==
    <<remote, disk, dry_run, pc, run, content, lines, idx, modified_lines,
      changes_made, total_changes, log, firstRun>>

\* The candidates get_version_for_commit_sha collects (matching_tags), when its
\* listing request is made and answered 200
Candidates(rem, repo, sha) ==
    LET parts == split(repo, "/")
    IN  IF Len(parts) >= 2 /\ rem.net = "up"
           /\ GetTagRefs(rem, OwnerRepo(parts)).status = HTTP_OK
        THEN MatchingTags(rem, OwnerRepo(parts), rem.tags, sha)
        ELSE <<>>

\* get_commit_sha_for_tag(repo, tag)
CallRef ==
    /\ res.pc = "start"
    /\ \E repo \in ResolveRepos, tag \in ResolveTags :
        res' = [res EXCEPT !.pc = "ref", !.repo = repo, !.arg = tag,
                           !.sha = get_commit_sha_for_tag(remote, repo, tag)]
    /\ UNCHANGED FileVars

\* get_version_for_commit_sha(repo, sha)
CallLabel ==
    /\ res.pc = "start"
    /\ \E repo \in ResolveRepos, sha \in ResolveShas :
        res' = [res EXCEPT !.pc = "label", !.repo = repo, !.arg = sha,
                           !.candidates = Candidates(remote, repo, sha),
                           !.label = get_version_for_commit_sha(remote, repo, sha)]
    /\ UNCHANGED FileVars

\* the identifier a tag resolved to is resolved back to a label, and that label
\* to an identifier again
RoundTrip ==
    /\ res.pc = "ref"
    /\ res.sha.kind = "value"
    /\ LET label == get_version_for_commit_sha(remote, res.repo, res.sha.val)
       IN  res' = [res EXCEPT
                     !.pc = "round",
                     !.candidates = Candidates(remote, res.repo, res.sha.val),
                     !.label = label,
                     !.back = IF label.kind = "value"
                              THEN get_commit_sha_for_tag(remote, res.repo, label.val)
                              ELSE None]
    /\ UNCHANGED FileVars

NextResolve ==
    \/ CallRef
    \/ CallLabel
    \/ RoundTrip

SpecResolve == InitResolve /\ [][NextResolve]_vars

(***************************************************************************)
(* Lines by their parts.  The properties below speak of a line's prefix,   *)
(* slug, ref, separation and comment as the parts it was written from, not *)
(* as the groups the script's patterns recover.                           *)
(***************************************************************************)
Shapes ==
    {Uses(p, r, f, s, c) :
        p \in {Prefix1, Prefix2},
        r \in {Repo_a_b, Repo_a_b_c},
        f \in {Tag_v4, CommitA, CommitB, CommitDec, TagObjA, <<"m", "a", "i", "n">>},
        s \in {<<>>, <<" ">>, <<" ", " ">>},
        c \in {<<>>, Hash, <<"#", " ">>, <<"#", " ", "k", "e", "e", "p">>, <<"#", " ", "v", "4", ".", "1", ".", "0">>,
               <<"#", " ", "v", "4">>, <<"#", " ", "v", "1">>}}

ShapeTexts == {[d |-> d, text |-> Render(d)] : d \in Shapes}

\* The parts a line can be written from
ShapesOf(line) == {p.d : p \in {q \in ShapeTexts : q.text = line}}

\* exactly 40 lowercase hexadecimal characters
IsCommitId(ref) ==
    /\ Len(ref) = ShaLen
    /\ \A k \in 1..Len(ref) : ref[k] \in HexLower

\* no trailing comment, or nothing more than a lone "#"
IsBareComment(c) == c = <<>> \/ strip(c) = Hash

EndsWith(s, t) ==
    /\ Len(t) <= Len(s)
    /\ SubSeq(s, Len(s) - Len(t) + 1, Len(s)) = t

Processed == 1..Len(log)

(***************************************************************************)
(* C1 (as stated; refuted by the script).  Idempotence: when the first     *)
(* run resolved every reference it attempted and wrote its result, a       *)
(* second run on that result against the same remote state changes no      *)
(* line: its change count is 0 and its output equals its input.            *)
(***************************************************************************)
C1_SecondRunChangesNothing ==
    (pc = "done" /\ run = 2 /\ ~dry_run /\ firstRun.resolved)
        => /\ changes_made = 0
           /\ modified_lines = lines
           /\ disk = content

ExpectedPin(d, sha) ==
    d.prefix \o d.repo \o <<"@">> \o sha \o
        (IF d.comment # <<>> THEN d.comment ELSE <<" ", " ", "#", " ">> \o d.ref)

PinClaim(e, d) ==
    LET r == get_commit_sha_for_tag(remote, d.repo, d.ref)
    IN  /\ r.kind = "value" => (e.out = <<ExpectedPin(d, r.val)>> /\ e.changed)
        /\ r.kind = "none" => (e.out = <<e.line>> /\ ~e.changed)

(***************************************************************************)
(* C2.  A line whose ref matches the version-tag pattern, the ref not      *)
(* being a 40-character commit identifier: when ReferenceResolver returns  *)
(* C the output is prefix, slug, "@C" and then the original comment, or    *)
(* "  # <tag>" when there was none, and the line counts as changed; when   *)
(* it returns NotFound the line is output unchanged and not counted.       *)
(***************************************************************************)
C2_PinVersionTag ==
    \A i \in Processed : \A d \in ShapesOf(log[i].line) :
        (IsVersionRef(d.ref) /\ ~IsCommitId(d.ref)) => PinClaim(log[i], d)

\* C2 as stated: the same of every line whose ref matches the version-tag
\* pattern, a ref of 40 decimal digits included.
C2_PinEveryVersionRef ==
    \A i \in Processed : \A d \in ShapesOf(log[i].line) :
        IsVersionRef(d.ref) => PinClaim(log[i], d)

\* C2, witness: a version-tag line with a comment of its own has been pinned
C2_Witness ==
    \E i \in Processed :
        /\ log[i].line = Render(Uses(Prefix1, Repo_a_b_c, Tag_v4, <<" ">>, <<"#", " ", "k", "e", "e", "p">>))
        /\ log[i].changed
        /\ get_commit_sha_for_tag(remote, Repo_a_b_c, Tag_v4) = Value(CommitA)

(***************************************************************************)
(* C3.  A line pinned to a 40-character commit identifier whose trailing   *)
(* comment is more than a lone "#" is output as it is, is not counted as   *)
(* changed, and causes no lookup, whatever the remote state.               *)
(***************************************************************************)
C3_AnnotatedPinnedUntouched ==
    \A i \in Processed : \A d \in ShapesOf(log[i].line) :
        (IsCommitId(d.ref) /\ ~IsBareComment(d.comment))
            => /\ log[i].out = <<log[i].line>>
               /\ ~log[i].changed
               /\ log[i].calls = {}

\* C3, witness: an annotated pinned line has been processed while a label for its commit exists
C3_Witness ==
    \E i \in Processed :
        /\ log[i].line = Render(Uses(Prefix1, Repo_a_b, CommitA, <<" ", " ">>, <<"#", " ", "v", "4", ".", "1", ".", "0">>))
        /\ get_version_for_commit_sha(remote, Repo_a_b, CommitA) = Value(Tag_v4)

(***************************************************************************)
(* C4.  A line pinned to a 40-character commit identifier (40 decimal      *)
(* digits included) with no trailing comment or a bare "#": LabelResolver  *)
(* is called and ReferenceResolver is not; with label L the output is      *)
(* "<prefix><slug>@<ref>  # L" and the line counts as changed; with        *)
(* NotFound the line is output unchanged and not counted.                  *)
(***************************************************************************)
C4_PinnedWithoutLabel ==
    \A i \in Processed : \A d \in ShapesOf(log[i].line) :
        (IsCommitId(d.ref) /\ IsBareComment(d.comment))
            => LET r == get_version_for_commit_sha(remote, d.repo, d.ref)
               IN  /\ log[i].calls = {"label"}
                   /\ r.kind = "value"
                        => /\ log[i].out = <<d.prefix \o d.repo \o <<"@">> \o d.ref
                                              \o <<" ", " ", "#", " ">> \o r.val>>
                           /\ log[i].changed
                   /\ r.kind = "none"
                        => /\ log[i].out = <<log[i].line>>
                           /\ ~log[i].changed

\* C4, witness: a pinned line of 40 decimal digits has been given its label, and one with a
\* bare "#" after a subpath slug too
C4_Witness ==
    /\ \E i \in Processed :
        /\ log[i].line = Render(Uses(Prefix1, Repo_a_b, CommitDec, <<>>, <<>>))
        /\ log[i].changed
        /\ IsVersionRef(CommitDec)
    /\ \E i \in Processed :
        /\ log[i].line = Render(Uses(Prefix1, Repo_a_b_c, CommitA, <<" ">>, <<"#", " ">>))
        /\ log[i].changed

TagLookupFails(rem, d) ==
    LET owner_repo == OwnerRepo(split(d.repo, "/"))
        r == GetTagRef(rem, owner_repo, d.ref)
    IN  \/ r.status # HTTP_OK
        \/ /\ r.json.object.type = "tag"
           /\ GetTagObject(rem, owner_repo, r.json.object.sha).status # HTTP_OK

(***************************************************************************)
(* C6 (as stated; refuted by the script).  When the get-tag-reference      *)
(* request or the request dereferencing an annotated tag object is         *)
(* answered without success, the version-tag line is output unchanged and  *)
(* not counted, and so its ref is never the id of an annotated tag object. *)
(***************************************************************************)
C6_NonSuccessIsNotFound ==
    \A i \in Processed : \A d \in ShapesOf(log[i].line) :
        (IsVersionRef(d.ref) /\ ~IsCommitId(d.ref) /\ remote.net = "up")
            => /\ TagLookupFails(remote, d)
                    => (log[i].out = <<log[i].line>> /\ ~log[i].changed)
               /\ \A o \in remote.objects \cup TagObjects :
                    log[i].out # <<ExpectedPin(d, o.sha)>>

(***************************************************************************)
(* C7 (as stated; refuted by the script).  A lookup whose request raises   *)
(* is turned into NotFound for its line: the line is output unchanged, the *)
(* loop goes on, and the run is not aborted.                               *)
(***************************************************************************)
C7_NetworkFailureIsNotFound ==
    /\ pc # "crashed"
    /\ \A i \in Processed :
        log[i].raised => (log[i].out = <<log[i].line>> /\ ~log[i].changed)

Unrelated(line) == ~sha_pattern(line).matched /\ ~version_pattern(line).matched

(***************************************************************************)
(* C8.  The rewritten content has as many lines as the input, line i of    *)
(* the output comes from line i of the input alone (equal input lines give *)
(* equal output lines), and a line matching neither pattern is identical   *)
(* at the same position, not counted as changed, and causes no lookup.     *)
(***************************************************************************)
C8_LineOrderAndUnrelated ==
    /\ pc \in {"loop", "done", "crashed"}
        => /\ Len(modified_lines) = idx - 1
           /\ \A i \in 1..Len(modified_lines) :
                /\ log[i].line = lines[i]
                /\ log[i].out = <<modified_lines[i]>>
                /\ Unrelated(lines[i])
                    => /\ modified_lines[i] = lines[i]
                       /\ ~log[i].changed
                       /\ log[i].calls = {}
           /\ \A i, j \in 1..Len(modified_lines) :
                lines[i] = lines[j] => modified_lines[i] = modified_lines[j]
    /\ pc = "done"
        => /\ Len(modified_lines) = Len(lines)
           /\ Len(split(disk, "\n")) = Len(lines)

\* C8, witness: a file of two lines, the second unrelated, has been rewritten and written back
C8_Witness ==
    /\ pc = "done"
    /\ Len(lines) = 2
    /\ lines[2] = <<" ", " ", "r", "u", "n", "s", "-", "o", "n", ":", " ", "u", "b", "u", "n", "t", "u", "-", "l", "a", "t", "e", "s", "t">>
    /\ modified_lines[1] # lines[1]
    /\ disk # content

(***************************************************************************)
(* C9 (as stated; refuted by the script).  A changed line keeps its        *)
(* leading whitespace, "uses:" prefix and slug, and differs only in the    *)
(* ref and/or the trailing comment: a comment already on a version-tag     *)
(* line is carried over together with its separation from the ref.         *)
(***************************************************************************)
C9_FrameOfRewrite ==
    \A i \in Processed : \A d \in ShapesOf(log[i].line) :
        log[i].changed
            => LET o == log[i].out[1]
                   head == d.prefix \o d.repo \o <<"@">>
                   tail == d.sep \o d.comment
               IN  /\ StartsWithAt(o, 1, head)
                   /\ (~IsCommitId(d.ref) /\ d.comment # <<>>)
                        => /\ EndsWith(o, tail)
                           /\ FindAny(o, Len(head) + 1, Space \cup {"#"})
                                = Len(o) - Len(tail) + 1

Listed(rem, repo) ==
    LET parts == split(repo, "/")
    IN  /\ Len(parts) >= 2
        /\ rem.net = "up"
        /\ GetTagRefs(rem, OwnerRepo(parts)).status = HTTP_OK

Components(t) == Len(split(t, "."))

Names(c) == {c[i] : i \in 1..Len(c)}

(***************************************************************************)
(* C5.  Label selection, when the listing is obtained: the result is       *)
(* NotFound iff no tag resolves to the queried commit; if some candidate   *)
(* is "v" followed by dot-separated integers the result is the one of      *)
(* those with the fewest dot-separated components and, among these, the    *)
(* smallest string, whatever the listing order; otherwise it is the first  *)
(* candidate of the listing.                                               *)
(***************************************************************************)
C5_LabelSelection ==
    (res.pc \in {"label", "round"} /\ Listed(remote, res.repo))
        => LET names == Names(res.candidates)
               pattern == {t \in names : IsVersionLabel(t)}
               l == res.label
           IN  /\ l = None <=> names = {}
               /\ pattern # {}
                    => /\ l.kind = "value"
                       /\ l.val \in pattern
                       /\ \A t \in pattern :
                            \/ Components(l.val) < Components(t)
                            \/ /\ Components(l.val) = Components(t)
                               /\ (l.val = t \/ StrLess(l.val, t))
               /\ (names # {} /\ pattern = {}) => l = Value(res.candidates[1])

\* C5, witness: v4.0.0 is listed before v9 and v10, all three are candidates, and v10 is chosen
C5_Witness ==
    /\ res.pc = "label"
    /\ Len(res.candidates) = 3
    /\ res.candidates[1] = Tag_v400
    /\ Names(res.candidates) = {Tag_v400, Tag_v9, Tag_v10}
    /\ res.label = Value(Tag_v10)

PlainTagNames(rem) ==
    \A i \in 1..Len(rem.tags) : RefsTags \o TagName(rem.tags[i]) = rem.tags[i].ref

RoundTripHolds ==
    /\ res.label.kind = "value"
    /\ res.arg \in Names(res.candidates)
    /\ res.back = res.sha

====
